---------------------------- MODULE Spec2Model ----------------------------
(***************************************************************************)
(* The two example notebooks of the repository, run cell by cell against   *)
(* the remote machine-learning service they call:                          *)
(*                                                                         *)
(*   - the "orange juice sales" notebook (src/unnamed/part_000): it        *)
(*     declares a parallel job, builds a two-step pipeline, submits it     *)
(*     and streams it;                                                     *)
(*   - the registry notebook (share-models-components-environments.ipynb): *)
(*     it creates an environment, a component and a model in a registry,   *)
(*     and deploys the model to an online endpoint.                        *)
(*                                                                         *)
(* A behaviour executes one of the two notebooks.  The registry notebook   *)
(* may be run several times (Runs), the runs interleaving against the same *)
(* registry and workspace.  Every SDK call either returns or raises.       *)
(***************************************************************************)
EXTENDS Integers, Sequences, FiniteSets, Bags, TLC

(***************************************************************************)
(* Bounds of the model.                                                    *)
(***************************************************************************)
\* Number of runs of the registry notebook.
NumRuns == 2
\* The wall clock advances in ticks; TicksPerSecond of them make a second.
TicksPerSecond == 2
\* The wall clock (in ticks) when the behaviour starts.
StartTick == 18
\* The wall clock advances at most this many ticks.
MaxTicks == 3

ParallelProc == 0
Runs == 1..NumRuns
Procs == {ParallelProc} \cup Runs

VARIABLES
    notebook,       \* which notebook this behaviour executes
    clock,          \* wall clock, in ticks
    pc,             \* per process: the call site it is about to execute
    status,         \* per process: "running", "failed" (a cell raised), "done"
    calls,          \* per process: the SDK calls issued so far, in order
    errors,         \* per process: the call sites whose call raised
    credential,     \* per process: the class of the object bound to credential
    constructed,    \* per process: credential classes constructed so far
    firstRaised,    \* per process: where the first method raised, or "none"
    version,        \* per run: the string bound to version
    registry,       \* the assets of the registry
    workspace,      \* the assets of the workspace
    createRequests, \* every asset creation requested of the service, with its run
    job,            \* per run: the pipeline job submitted to the workspace
    endpoints,      \* the online endpoints of the workspace
    lro,            \* per run: the long-running operation it began last
    local,          \* per run: notebook variables bound from earlier results
    my_job,         \* parallel notebook: the pipeline object built locally
    submitted,      \* parallel notebook: the pipeline jobs the workspace received
    stepStatus,     \* parallel notebook: the state of each step of the job
    failReason,     \* parallel notebook: why the parallel step failed, or "none"
    mb,             \* the unfinished mini-batches: a bag of [phase, attempts]
    mbSucceeded,    \* number of mini-batches that succeeded
    mbFailed,       \* number of mini-batches that failed for good
    itemFailures    \* items given to mini-batches and missing from their returns

procVars == <<pc, status, calls, errors>>
credVars == <<credential, constructed, firstRaised>>
svcVars == <<registry, workspace, createRequests, job, endpoints, lro>>
mbVars == <<mb, mbSucceeded, mbFailed, itemFailures>>
parVars == <<my_job, submitted, stepStatus, failReason, mb, mbSucceeded,
             mbFailed, itemFailures>>
vars == <<notebook, clock, pc, status, calls, errors, credential, constructed,
          firstRaised, version, registry, workspace, createRequests, job,
          endpoints, lro, local, my_job, submitted, stepStatus, failReason,
          mb, mbSucceeded, mbFailed, itemFailures>>

(***************************************************************************)
(* Python conversions used by the version cell.  A string of decimal       *)
(* digits is a sequence of digits.                                         *)
(***************************************************************************)
RECURSIVE str(_)
str(n) == IF n < 10 THEN <<n>> ELSE Append(str(n \div 10), n % 10)

RECURSIVE int(_)
int(s) == IF Len(s) = 0 THEN 0
          ELSE 10 * int(SubSeq(s, 1, Len(s) - 1)) + s[Len(s)]

\* time.time(): seconds since the epoch, with a fractional part (in ticks).
\* int(time.time()) truncates to whole seconds.
IntTime(t) == t \div TicksPerSecond

\* version = str(int(time.time()))
VersionOf(t) == str(IntTime(t))

\* str(int(version) + 1), the version of the optional local-files model
VersionPlusOne(v) == str(int(v) + 1)

\* "endpoint-" + version
EndpointName(v) == <<"endpoint-">> \o v

(***************************************************************************)
(* Exceptions.  The credential functions raise azure.identity errors; all  *)
(* derive from Exception.  An except clause catches the instances of its   *)
(* class.                                                                  *)
(***************************************************************************)
ExceptionClasses == {"ClientAuthenticationError", "CredentialUnavailableError"}

IsInstance(exc, cls) == cls = "Exception" \/ exc = cls

\* A handler that names one azure.identity error instead of Exception.
CatchesClientAuthenticationErrorOnly(exc) == IsInstance(exc, "ClientAuthenticationError")

\* except Exception as ex:
CredentialHandlerCatches(exc) == IsInstance(exc, "Exception")

(***************************************************************************)
(* Process bookkeeping.                                                    *)
(***************************************************************************)
Active(p) ==
    /\ status[p] = "running"
    /\ \/ notebook = "registry" /\ p \in Runs
       \/ notebook = "parallel" /\ p = ParallelProc

At(p, site) == Active(p) /\ pc[p] = site

\* A statement without an SDK call completes: the next cell is reached.
Step(p, next) ==
    /\ pc' = [pc EXCEPT ![p] = next]
    /\ UNCHANGED <<status, calls, errors>>

\* The SDK call at `site` returns: execution continues at `next`; the run
\* is done when no cell is left.
Return(p, site, next) ==
    /\ pc' = [pc EXCEPT ![p] = next]
    /\ calls' = [calls EXCEPT ![p] = Append(@, site)]
    /\ status' = [status EXCEPT ![p] = IF next = "end" THEN "done" ELSE @]
    /\ UNCHANGED errors

\* An exception that is swallowed: execution goes on with the next call.
Swallowed(p, site, next) ==
    /\ pc' = [pc EXCEPT ![p] = next]
    /\ UNCHANGED status

\* An exception no handler catches ends the cell, and with it the run.
Uncaught(p, site, next) ==
    /\ status' = [status EXCEPT ![p] = "failed"]
    /\ UNCHANGED pc

\* The SDK call at `site` raises.  No call outside the credential cell is
\* inside a try statement.
OnError(p, site, next) ==
    /\ calls' = [calls EXCEPT ![p] = Append(@, site)]
    /\ errors' = [errors EXCEPT ![p] = @ \cup {site}]
    /\ Uncaught(p, site, next)

(***************************************************************************)
(* The credential cell (both notebooks).                                   *)
(*     try:                                                                *)
(*         credential = DefaultAzureCredential()                           *)
(*         credential.get_token("https://management.azure.com/.default")   *)
(*     except Exception as ex:                                             *)
(*         credential = InteractiveBrowserCredential()                     *)
(***************************************************************************)
AfterCredential(p) == IF p = ParallelProc THEN "workspace" ELSE "clients"

CredentialCell(p) ==
    /\ At(p, "credential")
    /\ \E raisedAt \in {"none", "constructor", "get_token"} :
       \E exc \in ExceptionClasses :
          /\ firstRaised' = [firstRaised EXCEPT ![p] = raisedAt]
          /\ IF raisedAt = "none"
             THEN /\ credential' = [credential EXCEPT ![p] = "DefaultAzureCredential"]
                  /\ constructed' = [constructed EXCEPT ![p] =
                                        @ \cup {"DefaultAzureCredential"}]
                  /\ Step(p, AfterCredential(p))
             ELSE IF CredentialHandlerCatches(exc)
             THEN /\ credential' = [credential EXCEPT ![p] = "InteractiveBrowserCredential"]
                  /\ constructed' = [constructed EXCEPT ![p] =
                        @ \cup {"InteractiveBrowserCredential"}
                          \cup (IF raisedAt = "get_token"
                                THEN {"DefaultAzureCredential"} ELSE {})]
                  /\ Step(p, AfterCredential(p))
             ELSE /\ credential' = [credential EXCEPT ![p] =
                        IF raisedAt = "get_token" THEN "DefaultAzureCredential"
                        ELSE "unbound"]
                  /\ constructed' = [constructed EXCEPT ![p] =
                        @ \cup (IF raisedAt = "get_token"
                                THEN {"DefaultAzureCredential"} ELSE {})]
                  /\ status' = [status EXCEPT ![p] = "failed"]
                  /\ UNCHANGED <<pc, calls, errors>>
    /\ UNCHANGED <<notebook, clock, version, svcVars, local, parVars>>

(***************************************************************************)
(* The remote service's stores.  An asset is identified by kind, name and  *)
(* version; the registry and the workspace are separate stores.            *)
(***************************************************************************)
Asset(kind, name, ver, creator, client, ref) ==
    [kind |-> kind, name |-> name, version |-> ver, creator |-> creator,
     via |-> client, ref |-> ref]

Exists(store, kind, name, ver) ==
    \E a \in store : a.kind = kind /\ a.name = name /\ a.version = ver

Request(store, kind, name, ver, p) ==
    [store |-> store, kind |-> kind, name |-> name, version |-> ver, run |-> p]

\* <client>.<assets>.create_or_update(asset) on the registry.  A name and
\* version that already exist in the registry make the call fail.
RegistryCreate(p, site, next, kind, name, ver, client, ref) ==
    /\ createRequests' = createRequests \cup {Request("registry", kind, name, ver, p)}
    /\ \/ /\ ~Exists(registry, kind, name, ver)
          /\ registry' = registry \cup {Asset(kind, name, ver, p, client, ref)}
          /\ Return(p, site, next)
       \/ /\ OnError(p, site, next)
          /\ UNCHANGED registry

\* <client>.<assets>.get(name, version): the asset when the store has it.
StoreGet(p, site, next, store, kind, name, ver) ==
    \/ /\ Exists(store, kind, name, ver)
       /\ Return(p, site, next)
    \/ OnError(p, site, next)

Terminal == {"Completed", "Failed"}

(***************************************************************************)
(* The registry notebook, cell by cell.                                    *)
(***************************************************************************)
\* ml_client_workspace = MLClient(...); ml_client_registry = MLClient(...)
ClientsCell(p) ==
    /\ At(p, "clients")
    /\ Step(p, "version")
    /\ UNCHANGED <<notebook, clock, credVars, version, svcVars, local, parVars>>

\* version = str(int(time.time()))
VersionCell(p) ==
    /\ At(p, "version")
    /\ version' = [version EXCEPT ![p] = VersionOf(clock)]
    /\ Step(p, "env_create")
    /\ UNCHANGED <<notebook, clock, credVars, svcVars, local, parVars>>

\* ml_client_registry.environments.create_or_update(env_docker_context)
EnvCreate(p) ==
    /\ At(p, "env_create")
    /\ RegistryCreate(p, "env_create", "env_get", "environment", "SKLearnEnv",
                      version[p], "ml_client_registry", <<>>)
    /\ UNCHANGED <<notebook, clock, credVars, version, workspace, job, endpoints, lro, local, parVars>>

\* env_from_registry = ml_client_registry.environments.get("SKLearnEnv", version)
EnvGet(p) ==
    /\ At(p, "env_get")
    /\ StoreGet(p, "env_get", "component_create", registry, "environment",
                "SKLearnEnv", version[p])
    /\ local' = [local EXCEPT ![p].env_from_registry =
                    IF status'[p] = "running" THEN <<"SKLearnEnv", version[p]>> ELSE @]
    /\ UNCHANGED <<notebook, clock, credVars, version, svcVars, parVars>>

\* The component cell without the line that overrides the environment: the
\* component keeps the curated environment train.yml names.
ComponentCreateFromYaml(p) ==
    /\ At(p, "component_create")
    /\ RegistryCreate(p, "component_create", "component_get", "component",
                      "train_linear_regression_model", version[p],
                      "ml_client_registry", <<"AzureML-sklearn-0.24-ubuntu18">>)
    /\ UNCHANGED <<notebook, clock, credVars, version, workspace, job, endpoints, lro, local, parVars>>

\* train_model = load_component(train.yml); train_model.environment =
\* env_from_registry; train_model.version = version;
\* ml_client_registry.components.create_or_update(train_model)
ComponentCreate(p) ==
    /\ At(p, "component_create")
    /\ RegistryCreate(p, "component_create", "component_get", "component",
                      "train_linear_regression_model", version[p],
                      "ml_client_registry", local[p].env_from_registry)
    /\ UNCHANGED <<notebook, clock, credVars, version, workspace, job, endpoints, lro, local, parVars>>

\* train_component_from_registry = ml_client_registry.components.get(...)
ComponentGet(p) ==
    /\ At(p, "component_get")
    /\ StoreGet(p, "component_get", "pipeline_build", registry, "component",
                "train_linear_regression_model", version[p])
    /\ local' = [local EXCEPT ![p].train_component_from_registry =
                    IF status'[p] = "running"
                    THEN <<"train_linear_regression_model", version[p]>> ELSE @]
    /\ UNCHANGED <<notebook, clock, credVars, version, svcVars, parVars>>

\* pipeline_job = pipeline_with_registered_components(...)
PipelineBuild(p) ==
    /\ At(p, "pipeline_build")
    /\ Step(p, "job_submit")
    /\ UNCHANGED <<notebook, clock, credVars, version, svcVars, local, parVars>>

\* pipeline_job = ml_client_workspace.jobs.create_or_update(pipeline_job, ...)
JobSubmit(p) ==
    /\ At(p, "job_submit")
    /\ \/ /\ job' = [job EXCEPT ![p] =
                        [state |-> "Queued", children |-> {},
                         component |-> local[p].train_component_from_registry]]
          /\ Return(p, "job_submit", "job_stream")
       \/ /\ OnError(p, "job_submit", "job_stream")
          /\ UNCHANGED job
    /\ UNCHANGED <<notebook, clock, credVars, version, registry, workspace,
                   createRequests, endpoints, lro, local, parVars>>

\* The workspace runs the submitted job: its train_job child starts, then
\* completes or fails; a job may also fail before any child starts.
JobStart(p) ==
    /\ notebook = "registry" /\ p \in Runs
    /\ job[p].state = "Queued"
    /\ job' = [job EXCEPT ![p].state = "Running", ![p].children = {"train_job"}]
    /\ UNCHANGED <<notebook, clock, procVars, credVars, version, registry,
                   workspace, createRequests, endpoints, lro, local, parVars>>

JobEnd(p) ==
    /\ notebook = "registry" /\ p \in Runs
    /\ \/ /\ job[p].state = "Running"
          /\ \E s \in Terminal : job' = [job EXCEPT ![p].state = s]
       \/ /\ job[p].state = "Queued"
          /\ job' = [job EXCEPT ![p].state = "Failed"]
    /\ UNCHANGED <<notebook, clock, procVars, credVars, version, registry,
                   workspace, createRequests, endpoints, lro, local, parVars>>

\* The state of the pipeline job of the parallel-job notebook as a whole.
PipelineState ==
    IF Len(submitted) = 0 THEN "none"
    ELSE IF \E n \in {"partition_job", "parallel_train"} : stepStatus[n] = "Failed"
    THEN "Failed"
    ELSE IF \A n \in {"partition_job", "parallel_train"} : stepStatus[n] = "Completed"
    THEN "Completed"
    ELSE "Running"

\* The state of the pipeline job process p submitted.
JobState(p) == IF p = ParallelProc THEN PipelineState ELSE job[p].state

\* A stream call that returns at once, whatever the state of the job.
StreamReturnsAtOnce(p) == TRUE

\* jobs.stream(name) waits until the job completes: it returns once the job
\* has reached a terminal state.
StreamReturns(p) == JobState(p) \in Terminal

\* ml_client_workspace.jobs.stream(pipeline_job.name)
JobStream(p) ==
    /\ At(p, "job_stream")
    /\ \/ /\ StreamReturns(p)
          /\ Return(p, "job_stream", "job_get")
       \/ OnError(p, "job_stream", "job_get")
    /\ UNCHANGED <<notebook, clock, credVars, version, svcVars, local, parVars>>

\* pipeline_job = ml_client_workspace.jobs.get(pipeline_job.name)
JobGet(p) ==
    /\ At(p, "job_get")
    /\ \/ Return(p, "job_get", "jobs_list")
       \/ OnError(p, "job_get", "jobs_list")
    /\ UNCHANGED <<notebook, clock, credVars, version, svcVars, local, parVars>>

\* jobs = ml_client_workspace.jobs.list(parent_job_name=pipeline_job.name)
\* for job in jobs: if job.display_name == "train_job": model_path_from_job = ...
\* print(model_path_from_job)     -- a NameError when no child matched
JobsList(p) ==
    /\ At(p, "jobs_list")
    /\ \/ /\ "train_job" \in job[p].children
          /\ Return(p, "jobs_list", "ws_model_create")
          /\ local' = [local EXCEPT ![p].model_path_from_job = <<"train_job", p>>]
       \/ /\ "train_job" \notin job[p].children
          /\ calls' = [calls EXCEPT ![p] = Append(@, "jobs_list")]
          /\ status' = [status EXCEPT ![p] = "failed"]
          /\ UNCHANGED <<pc, errors, local>>
       \/ /\ OnError(p, "jobs_list", "ws_model_create")
          /\ UNCHANGED local
    /\ UNCHANGED <<notebook, clock, credVars, version, svcVars, parVars>>

\* mlflow_model = Model(path=model_path_from_job, name="nyc-taxi-model",
\* version=version); ml_client_workspace.models.create_or_update(mlflow_model)
\* The model is created from the job's output, which a completed job has.
WsModelCreate(p) ==
    /\ At(p, "ws_model_create")
    /\ createRequests' = createRequests \cup
          {Request("workspace", "model", "nyc-taxi-model", version[p], p)}
    /\ \/ /\ job[p].state = "Completed"
          /\ workspace' =
                {a \in workspace : ~(a.kind = "model" /\ a.name = "nyc-taxi-model"
                                     /\ a.version = version[p])}
                \cup {Asset("model", "nyc-taxi-model", version[p], p,
                            "ml_client_workspace", local[p].model_path_from_job)}
          /\ Return(p, "ws_model_create", "ws_model_get")
       \/ /\ OnError(p, "ws_model_create", "ws_model_get")
          /\ UNCHANGED workspace
    /\ UNCHANGED <<notebook, clock, credVars, version, registry, job, endpoints,
                   lro, local, parVars>>

\* model_in_workspace = ml_client_workspace.models.get("nyc-taxi-model", version)
WsModelGet(p) ==
    /\ At(p, "ws_model_get")
    /\ StoreGet(p, "ws_model_get", "model_share", workspace, "model",
                "nyc-taxi-model", version[p])
    /\ UNCHANGED <<notebook, clock, credVars, version, svcVars, local, parVars>>

\* The name under which models.share registers the model in the registry.
ShareWithName == "nyc-taxi-model-new"

\* ml_client_workspace.models.share(name="nyc-taxi-model", version=version,
\*     registry=..., share_with_name="nyc-taxi-model-new",
\*     share_with_version=version)
\* The cells after it are the optional section, which a run may skip.
ModelShare(p) ==
    /\ At(p, "model_share")
    /\ createRequests' = createRequests \cup
          {Request("registry", "model", ShareWithName, version[p], p)}
    /\ \/ /\ Exists(workspace, "model", "nyc-taxi-model", version[p])
          /\ ~Exists(registry, "model", ShareWithName, version[p])
          /\ registry' = registry \cup
                {Asset("model", ShareWithName, version[p], p,
                       "ml_client_workspace", <<"nyc-taxi-model", version[p]>>)}
          /\ \E next \in {"opt_jobs_list", "registry_model_get"} :
                Return(p, "model_share", next)
       \/ /\ OnError(p, "model_share", "opt_jobs_list")
          /\ UNCHANGED registry
    /\ UNCHANGED <<notebook, clock, credVars, version, workspace, job, endpoints, lro, local, parVars>>

\* [OPTIONAL] jobs = ml_client_workspace.jobs.list(parent_job_name=...)
OptJobsList(p) ==
    /\ At(p, "opt_jobs_list")
    /\ \/ Return(p, "opt_jobs_list",
                 IF "train_job" \in job[p].children THEN "opt_download"
                 ELSE "opt_model_create")
       \/ OnError(p, "opt_jobs_list", "opt_download")
    /\ UNCHANGED <<notebook, clock, credVars, version, svcVars, local, parVars>>

\* [OPTIONAL] ml_client_workspace.jobs.download(job.name)
OptDownload(p) ==
    /\ At(p, "opt_download")
    /\ \/ Return(p, "opt_download", "opt_model_create")
       \/ OnError(p, "opt_download", "opt_model_create")
    /\ UNCHANGED <<notebook, clock, credVars, version, svcVars, local, parVars>>

\* [OPTIONAL] mlflow_model = Model(path="./artifacts/model/",
\* name="nyc-taxi-model", version=str(int(version) + 1));
\* ml_client_registry.models.create_or_update(mlflow_model)
OptModelCreate(p) ==
    /\ At(p, "opt_model_create")
    /\ RegistryCreate(p, "opt_model_create", "registry_model_get", "model",
                      "nyc-taxi-model", VersionPlusOne(version[p]),
                      "ml_client_registry", <<>>)
    /\ UNCHANGED <<notebook, clock, credVars, version, workspace, job, endpoints, lro, local, parVars>>

\* mlflow_model_from_registry = ml_client_registry.models.get(
\*     name="nyc-taxi-model", version=version)
RegistryModelGet(p) ==
    /\ At(p, "registry_model_get")
    /\ StoreGet(p, "registry_model_get", "endpoint_create", registry, "model",
                "nyc-taxi-model", version[p])
    /\ local' = [local EXCEPT ![p].mlflow_model_from_registry =
                    IF status'[p] = "running" THEN <<"nyc-taxi-model", version[p]>>
                    ELSE @]
    /\ UNCHANGED <<notebook, clock, credVars, version, svcVars, parVars>>

(***************************************************************************)
(* Online endpoints.  begin_create_or_update and begin_delete start a      *)
(* long-running operation and return a poller; .wait() and .result() block *)
(* until the operation has ended and raise when it failed.                 *)
(***************************************************************************)
NoOperation == [op |-> "none", state |-> "idle", name |-> <<>>, model |-> <<>>]

DemoTraffic == {<<"demo", 100>>}

EndpointExists(name) == \E e \in endpoints : e.name = name

\* The call at `site` begins operation `op` on endpoint `name`.
Begin(p, site, next, op, name, model) ==
    \/ /\ lro' = [lro EXCEPT ![p] =
                    [op |-> op, state |-> "in_flight", name |-> name, model |-> model]]
       /\ Return(p, site, next)
    \/ /\ OnError(p, site, next)
       /\ UNCHANGED lro

\* A poller whose wait() or result() returns without waiting.
DoesNotWait(p, site, next) == Return(p, site, next)

\* poller.wait() / poller.result() at `site`
Wait(p, site, next) ==
    \/ /\ lro[p].state = "succeeded"
       /\ Return(p, site, next)
    \/ /\ lro[p].state = "failed"
       /\ OnError(p, site, next)

\* What a succeeded operation leaves in the workspace.
Applied(o) ==
    CASE o.op = "endpoint_create" ->
            IF EndpointExists(o.name) THEN endpoints
            ELSE endpoints \cup {[name |-> o.name, deployments |-> {}, traffic |-> {}]}
      [] o.op = "deployment_create" ->
            {IF e.name = o.name
             THEN [e EXCEPT !.deployments = @ \cup {[name |-> "demo", model |-> o.model]}]
             ELSE e : e \in endpoints}
      [] o.op = "traffic_update" ->
            {IF e.name = o.name THEN [e EXCEPT !.traffic = DemoTraffic] ELSE e :
                e \in endpoints}
      [] o.op = "endpoint_delete" -> {e \in endpoints : e.name # o.name}

\* What the operation needs of the workspace to succeed.
CanSucceed(o) ==
    CASE o.op = "endpoint_create" -> TRUE
      [] o.op = "deployment_create" -> EndpointExists(o.name)
      [] o.op = "traffic_update" ->
            \E e \in endpoints :
               /\ e.name = o.name
               /\ \A t \in DemoTraffic : \E d \in e.deployments : d.name = t[1]
      [] o.op = "endpoint_delete" -> EndpointExists(o.name)

\* The service ends the operation a run began.
OperationEnds(p) ==
    /\ notebook = "registry" /\ p \in Runs
    /\ lro[p].state = "in_flight"
    /\ \/ /\ CanSucceed(lro[p])
          /\ endpoints' = Applied(lro[p])
          /\ lro' = [lro EXCEPT ![p].state = "succeeded"]
       \/ /\ lro' = [lro EXCEPT ![p].state = "failed"]
          /\ UNCHANGED endpoints
    /\ UNCHANGED <<notebook, clock, procVars, credVars, version, registry,
                   workspace, createRequests, job, local, parVars>>

\* online_endpoint_name = "endpoint-" + version
\* endpoint = ManagedOnlineEndpoint(name=online_endpoint_name, ...)
\* ml_client_workspace.begin_create_or_update(endpoint)
EndpointCreate(p) ==
    /\ At(p, "endpoint_create")
    /\ createRequests' = createRequests \cup
          {Request("workspace", "endpoint", "endpoint-", version[p], p)}
    /\ Begin(p, "endpoint_create", "endpoint_create_wait", "endpoint_create",
             EndpointName(version[p]), <<>>)
    /\ UNCHANGED <<notebook, clock, credVars, version, registry, workspace, job,
                   endpoints, local, parVars>>

\* ....wait()
EndpointCreateWait(p) ==
    /\ At(p, "endpoint_create_wait")
    /\ Wait(p, "endpoint_create_wait", "deployment_create")
    /\ UNCHANGED <<notebook, clock, credVars, version, svcVars, local, parVars>>

\* demo_deployment = ManagedOnlineDeployment(name="demo",
\*     endpoint_name=online_endpoint_name, model=mlflow_model_from_registry.id, ...)
\* ml_client_workspace.online_deployments.begin_create_or_update(demo_deployment)
DeploymentCreate(p) ==
    /\ At(p, "deployment_create")
    /\ Begin(p, "deployment_create", "deployment_create_wait", "deployment_create",
             EndpointName(version[p]), local[p].mlflow_model_from_registry)
    /\ UNCHANGED <<notebook, clock, credVars, version, registry, workspace,
                   createRequests, job, endpoints, local, parVars>>

\* The notebook with the test cell placed before the traffic update.
DeploymentCreateWaitThenInvoke(p) ==
    /\ At(p, "deployment_create_wait")
    /\ Wait(p, "deployment_create_wait", "invoke")
    /\ UNCHANGED <<notebook, clock, credVars, version, svcVars, local, parVars>>

\* ....wait()
DeploymentCreateWait(p) ==
    /\ At(p, "deployment_create_wait")
    /\ Wait(p, "deployment_create_wait", "traffic_update")
    /\ UNCHANGED <<notebook, clock, credVars, version, svcVars, local, parVars>>

\* endpoint.traffic = {"demo": 100}
\* ml_client_workspace.begin_create_or_update(endpoint)
TrafficUpdate(p) ==
    /\ At(p, "traffic_update")
    /\ Begin(p, "traffic_update", "traffic_update_result", "traffic_update",
             EndpointName(version[p]), <<>>)
    /\ UNCHANGED <<notebook, clock, credVars, version, registry, workspace,
                   createRequests, job, endpoints, local, parVars>>

\* ....result()
TrafficUpdateResult(p) ==
    /\ At(p, "traffic_update_result")
    /\ Wait(p, "traffic_update_result", "invoke")
    /\ UNCHANGED <<notebook, clock, credVars, version, svcVars, local, parVars>>

\* ml_client_workspace.online_endpoints.invoke(endpoint_name=online_endpoint_name,
\*     deployment_name="demo", request_file=...)
Invoke(p) ==
    /\ At(p, "invoke")
    /\ \/ /\ \E e \in endpoints :
                /\ e.name = EndpointName(version[p])
                /\ \E d \in e.deployments : d.name = "demo"
          /\ Return(p, "invoke", "endpoint_delete")
       \/ OnError(p, "invoke", "endpoint_delete")
    /\ UNCHANGED <<notebook, clock, credVars, version, svcVars, local, parVars>>

\* ml_client_workspace.online_endpoints.begin_delete(name=online_endpoint_name)
EndpointDelete(p) ==
    /\ At(p, "endpoint_delete")
    /\ Begin(p, "endpoint_delete", "endpoint_delete_wait", "endpoint_delete",
             EndpointName(version[p]), <<>>)
    /\ UNCHANGED <<notebook, clock, credVars, version, registry, workspace,
                   createRequests, job, endpoints, local, parVars>>

\* ....wait(): the last statement of the notebook
EndpointDeleteWait(p) ==
    /\ At(p, "endpoint_delete_wait")
    /\ Wait(p, "endpoint_delete_wait", "end")
    /\ UNCHANGED <<notebook, clock, credVars, version, svcVars, local, parVars>>

(***************************************************************************)
(* The parallel-job notebook (src/unnamed/part_000).                       *)
(***************************************************************************)
\* Number of mini-batches the partitioned input yields (one per Store, Brand).
NumMiniBatches == 11

\* An input bound to a pipeline input, to a literal or to a step's output.
Bound(from, what) == [from |-> from, output |-> what]

\* Number of items (rows) of the input that each mini-batch is given.
ItemsPerMiniBatch == 1

\* The declaration with error_threshold=0 instead of -1.
parallel_run_function_counting_items ==
    [name |-> "train_many_models_with_partition_keys",
     input_data |-> "data_source",
     partition_keys |-> <<"Store", "Brand">>,
     instance_count |-> 2,
     max_concurrency_per_instance |-> 1,
     error_threshold |-> 0,
     mini_batch_error_threshold |-> 5,
     retry_settings |-> [max_retries |-> 2, timeout |-> 60],
     logging_level |-> "DEBUG"]

\* many_model_training_with_partition_keys = parallel_run_function(...)
parallel_run_function ==
    [name |-> "train_many_models_with_partition_keys",
     input_data |-> "data_source",
     partition_keys |-> <<"Store", "Brand">>,
     instance_count |-> 2,
     max_concurrency_per_instance |-> 1,
     error_threshold |-> -1,
     mini_batch_error_threshold |-> 5,
     retry_settings |-> [max_retries |-> 2, timeout |-> 60],
     logging_level |-> "DEBUG"]

\* Calling the declared parallel job inside a pipeline makes a step that
\* starts from the declaration's settings.
ParallelNode(decl, inputs) ==
    [component |-> decl.name,
     inputs |-> inputs,
     input_data |-> decl.input_data,
     partition_keys |-> decl.partition_keys,
     resources |-> [instance_count |-> decl.instance_count],
     max_concurrency_per_instance |-> decl.max_concurrency_per_instance,
     error_threshold |-> decl.error_threshold,
     mini_batch_error_threshold |-> decl.mini_batch_error_threshold,
     retry_settings |-> decl.retry_settings,
     logging_level |-> decl.logging_level]

\* The pipeline with the training step reading the pipeline's input instead
\* of the partition step's output.
pipeline_without_binding(pipeline_input_data) ==
    [partition_job |->
        [component |-> "partition_data",
         inputs |-> [data_source |-> Bound("pipeline", pipeline_input_data),
                     partition_keys |-> Bound("literal", "Store,Brand")],
         outputs |-> {"tabular_output_data"}],
     parallel_train |->
        [ParallelNode(parallel_run_function,
            [data_source |-> Bound("pipeline", pipeline_input_data),
             drop_cols |-> Bound("literal", "Revenue,Advert,Store,Brand"),
             target_col |-> Bound("literal", "Quantity"),
             date_col |-> Bound("literal", "WeekStarting"),
             lagging_orders |-> Bound("literal", "1,2,3,4,5,6")])
         EXCEPT !.resources.instance_count = 3,
                !.max_concurrency_per_instance = 2,
                !.mini_batch_error_threshold = 10]]

\* The pipeline with instance_count assigned on the step itself, where the
\* service does not read it, instead of on its resources.
pipeline_with_misplaced_override(pipeline_input_data) ==
    [partition_job |->
        [component |-> "partition_data",
         inputs |-> [data_source |-> Bound("pipeline", pipeline_input_data),
                     partition_keys |-> Bound("literal", "Store,Brand")],
         outputs |-> {"tabular_output_data"}],
     parallel_train |->
        [ParallelNode(parallel_run_function,
            [data_source |-> Bound("partition_job", "tabular_output_data"),
             drop_cols |-> Bound("literal", "Revenue,Advert,Store,Brand"),
             target_col |-> Bound("literal", "Quantity"),
             date_col |-> Bound("literal", "WeekStarting"),
             lagging_orders |-> Bound("literal", "1,2,3,4,5,6")])
         EXCEPT !.max_concurrency_per_instance = 2,
                !.mini_batch_error_threshold = 10]]

\* @pipeline def partition_job_in_pipeline(pipeline_input_data): ...
partition_job_in_pipeline(pipeline_input_data) ==
    LET partition_job ==
            [component |-> "partition_data",
             inputs |-> [data_source |-> Bound("pipeline", pipeline_input_data),
                         partition_keys |-> Bound("literal", "Store,Brand")],
             outputs |-> {"tabular_output_data"}]
        parallel_train ==
            ParallelNode(parallel_run_function,
                [data_source |-> Bound("partition_job", "tabular_output_data"),
                 drop_cols |-> Bound("literal", "Revenue,Advert,Store,Brand"),
                 target_col |-> Bound("literal", "Quantity"),
                 date_col |-> Bound("literal", "WeekStarting"),
                 lagging_orders |-> Bound("literal", "1,2,3,4,5,6")])
    IN  [partition_job |-> partition_job,
         parallel_train |->
            [parallel_train EXCEPT !.resources.instance_count = 3,
                                   !.max_concurrency_per_instance = 2,
                                   !.mini_batch_error_threshold = 10]]

StepNames == {"partition_job", "parallel_train"}

\* The steps whose outputs step n of pipeline job j consumes.
Upstream(j, n) ==
    {m \in StepNames :
        \E i \in DOMAIN j.jobs[n].inputs : j.jobs[n].inputs[i].from = m}

\* ml_client = MLClient.from_config(credential=credential)
\* print(ml_client.compute.get(cpu_compute_target))
WorkspaceCell(p) ==
    /\ At(p, "workspace")
    /\ \/ Return(p, "compute_get", "load_component")
       \/ OnError(p, "compute_get", "load_component")
    /\ UNCHANGED <<notebook, clock, credVars, version, svcVars, local, parVars>>

\* partition_data = load_component(source="./src/partition_data/partition_data.yml")
LoadComponentCell(p) ==
    /\ At(p, "load_component")
    /\ Step(p, "declare_parallel")
    /\ UNCHANGED <<notebook, clock, credVars, version, svcVars, local, parVars>>

\* many_model_training_with_partition_keys = parallel_run_function(...)
DeclareParallelCell(p) ==
    /\ At(p, "declare_parallel")
    /\ Step(p, "build_pipeline")
    /\ UNCHANGED <<notebook, clock, credVars, version, svcVars, local, parVars>>

\* my_job = partition_job_in_pipeline(pipeline_input_data=input_oj_data)
\* my_job.settings.default_compute = "cpu-cluster"
BuildPipelineCell(p) ==
    /\ At(p, "build_pipeline")
    /\ my_job' = <<[jobs |-> partition_job_in_pipeline("input_oj_data"),
                    settings |-> [default_compute |-> "cpu-cluster"]]>>
    /\ Step(p, "submit")
    /\ UNCHANGED <<notebook, clock, credVars, version, svcVars, local, submitted,
                   stepStatus, failReason, mbVars>>

\* pipeline_job = ml_client.jobs.create_or_update(my_job, experiment_name=...)
SubmitCell(p) ==
    /\ At(p, "submit")
    /\ \/ /\ submitted' = Append(submitted, my_job[1])
          /\ Return(p, "submit", "stream")
       \/ /\ OnError(p, "submit", "stream")
          /\ UNCHANGED submitted
    /\ UNCHANGED <<notebook, clock, credVars, version, svcVars, local, my_job,
                   stepStatus, failReason, mbVars>>

\* ml_client.jobs.stream(pipeline_job.name): the last cell of the notebook
StreamCell(p) ==
    /\ At(p, "stream")
    /\ \/ /\ StreamReturns(p)
          /\ Return(p, "stream", "end")
       \/ OnError(p, "stream", "end")
    /\ UNCHANGED <<notebook, clock, credVars, version, svcVars, local, parVars>>

(***************************************************************************)
(* The workspace runs the submitted pipeline job.                          *)
(***************************************************************************)
SubmittedJob == submitted[1]

ParallelSettings == SubmittedJob.jobs.parallel_train

\* A step starts once every step it consumes an output of has completed.
\* The parallel step's input is split into mini-batches.
StepStarts(n) ==
    /\ notebook = "parallel"
    /\ Len(submitted) > 0
    /\ stepStatus[n] = "NotStarted"
    /\ \A m \in StepNames : stepStatus[m] # "Failed"
    /\ \A m \in Upstream(SubmittedJob, n) : stepStatus[m] = "Completed"
    /\ stepStatus' = [stepStatus EXCEPT ![n] = "Running"]
    /\ mb' = IF n = "parallel_train"
             THEN [s \in {[phase |-> "pending", attempts |-> 0]} |-> NumMiniBatches]
             ELSE mb
    /\ UNCHANGED <<notebook, clock, procVars, credVars, version, svcVars, local,
                   my_job, submitted, failReason, mbSucceeded, mbFailed,
                   itemFailures>>

\* The partition step ends.
PartitionEnds ==
    /\ notebook = "parallel"
    /\ stepStatus["partition_job"] = "Running"
    /\ \E s \in Terminal : stepStatus' = [stepStatus EXCEPT !["partition_job"] = s]
    /\ UNCHANGED <<notebook, clock, procVars, credVars, version, svcVars, local,
                   my_job, submitted, failReason, mbVars>>

\* Worker processes of the parallel step: nodes times processes per node.
Workers(node) == node.resources.instance_count * node.max_concurrency_per_instance

Running == {s \in BagToSet(mb) : s.phase = "running"}

NumRunning == BagCardinality([s \in Running |-> mb[s]])

\* An off-by-one reading of max_retries.
MayExecuteOnceMore(attempts, max_retries) == attempts <= 1 + max_retries

\* retry_settings.max_retries: a mini-batch is executed once, and again
\* after a failed execution up to max_retries times.
MayExecute(attempts, max_retries) == attempts < 1 + max_retries

\* A free worker takes a pending mini-batch.
MiniBatchStarts ==
    /\ notebook = "parallel"
    /\ stepStatus["parallel_train"] = "Running"
    /\ NumRunning < Workers(ParallelSettings)
    /\ \E s \in BagToSet(mb) :
          /\ s.phase = "pending"
          /\ MayExecute(s.attempts, ParallelSettings.retry_settings.max_retries)
          /\ mb' = (mb (-) SetToBag({s}))
                   (+) SetToBag({[phase |-> "running", attempts |-> s.attempts + 1]})
    /\ UNCHANGED <<notebook, clock, procVars, credVars, version, svcVars, local,
                   my_job, submitted, stepStatus, failReason, mbSucceeded,
                   mbFailed, itemFailures>>

\* How an execution of the entry script on a mini-batch ended.
HowEnded(result, seconds, timeout) ==
    IF seconds > timeout THEN "timeout"
    ELSE IF result = "raises" THEN "exception"
    ELSE IF result = "returns_none" THEN "null_return"
    ELSE "returned"

ExecutionFailed(how) == how \in {"exception", "timeout", "null_return"}

\* A threshold that fails the job when the count reaches the setting.
ReachesThreshold(failed, threshold) == failed >= threshold

\* mini_batch_error_threshold: the parallel job fails when the count of
\* failed mini-batches is higher than the setting.
ExceedsThreshold(failed, threshold) == failed > threshold

\* The failed items of an execution that returned: the gap between the
\* mini-batch's input count and the number of items it returned.
ItemGap(how, returns) ==
    IF ExecutionFailed(how) THEN 0 ELSE ItemsPerMiniBatch - returns

\* error_threshold: the count of failed items is held against the setting;
\* -1 means the count is ignored.
ExceedsItemThreshold(failed, threshold) == threshold # -1 /\ failed > threshold

\* An execution ends.  A failed execution is retried while retries are left;
\* after the last one the mini-batch is failed.  An execution that returned
\* adds the items missing from its return to the failed items.  A step that
\* fails stops its workers and drops the mini-batches it has not finished.
MiniBatchEnds ==
    /\ notebook = "parallel"
    /\ stepStatus["parallel_train"] = "Running"
    /\ \E s \in Running :
       \E how \in {HowEnded(result, seconds, ParallelSettings.retry_settings.timeout) :
                      result \in {"raises", "returns_none", "returns_list"},
                      seconds \in {ParallelSettings.retry_settings.timeout,
                                   ParallelSettings.retry_settings.timeout + 1}} :
       \E gap \in {ItemGap(how, returns) : returns \in 0..ItemsPerMiniBatch} :
          LET rest == mb (-) SetToBag({s})
              retry == MayExecute(s.attempts, ParallelSettings.retry_settings.max_retries)
              failed == IF ExecutionFailed(how) /\ ~retry THEN mbFailed + 1 ELSE mbFailed
              exceeded == ExceedsThreshold(failed, ParallelSettings.mini_batch_error_threshold)
              items == itemFailures + gap
              itemsExceeded == ExceedsItemThreshold(items, ParallelSettings.error_threshold)
          IN  /\ mb' = IF exceeded \/ itemsExceeded THEN EmptyBag
                       ELSE IF ExecutionFailed(how) /\ retry
                       THEN rest (+) SetToBag({[phase |-> "pending", attempts |-> s.attempts]})
                       ELSE rest
              /\ mbSucceeded' = IF ExecutionFailed(how) THEN mbSucceeded ELSE mbSucceeded + 1
              /\ mbFailed' = failed
              /\ itemFailures' = items
              /\ stepStatus' = IF exceeded \/ itemsExceeded
                               THEN [stepStatus EXCEPT !["parallel_train"] = "Failed"]
                               ELSE stepStatus
              /\ failReason' = IF exceeded THEN "mini_batch_error_threshold"
                               ELSE IF itemsExceeded THEN "error_threshold"
                               ELSE failReason
    /\ UNCHANGED <<notebook, clock, procVars, credVars, version, svcVars, local,
                   my_job, submitted>>

\* The parallel step ends: completed once no mini-batch is left, or failed
\* for a reason other than its mini-batches (a lost node, a cancelled job).
ParallelEnds ==
    /\ notebook = "parallel"
    /\ stepStatus["parallel_train"] = "Running"
    /\ \/ /\ mb = EmptyBag
          /\ stepStatus' = [stepStatus EXCEPT !["parallel_train"] = "Completed"]
          /\ UNCHANGED failReason
          /\ UNCHANGED mb
       \/ /\ stepStatus' = [stepStatus EXCEPT !["parallel_train"] = "Failed"]
          /\ failReason' = "other"
          /\ mb' = EmptyBag
    /\ UNCHANGED <<notebook, clock, procVars, credVars, version, svcVars, local,
                   my_job, submitted, mbSucceeded, mbFailed, itemFailures>>

\* The wall clock advances.
Tick ==
    /\ clock < StartTick + MaxTicks
    /\ clock' = clock + 1
    /\ UNCHANGED <<notebook, procVars, credVars, version, svcVars, local, parVars>>

(***************************************************************************)
(* The specification.                                                      *)
(***************************************************************************)
NoLocals == [env_from_registry |-> <<>>, train_component_from_registry |-> <<>>,
             model_path_from_job |-> <<>>, mlflow_model_from_registry |-> <<>>]

Init ==
    /\ notebook \in {"parallel", "registry"}
    /\ clock = StartTick
    /\ pc = [p \in Procs |-> "credential"]
    /\ status = [p \in Procs |-> "running"]
    /\ calls = [p \in Procs |-> <<>>]
    /\ errors = [p \in Procs |-> {}]
    /\ credential = [p \in Procs |-> "unbound"]
    /\ constructed = [p \in Procs |-> {}]
    /\ firstRaised = [p \in Procs |-> "none"]
    /\ version = [p \in Runs |-> <<>>]
    /\ registry = {}
    /\ workspace = {}
    /\ createRequests = {}
    /\ job = [p \in Runs |-> [state |-> "none", children |-> {}, component |-> <<>>]]
    /\ endpoints = {}
    /\ lro = [p \in Runs |-> NoOperation]
    /\ local = [p \in Runs |-> NoLocals]
    /\ my_job = <<>>
    /\ submitted = <<>>
    /\ stepStatus = [n \in StepNames |-> "NotStarted"]
    /\ failReason = "none"
    /\ mb = EmptyBag
    /\ mbSucceeded = 0
    /\ mbFailed = 0
    /\ itemFailures = 0

RegistryNext ==
    \E p \in Runs :
       \/ CredentialCell(p)
       \/ ClientsCell(p)
       \/ VersionCell(p)
       \/ EnvCreate(p)
       \/ EnvGet(p)
       \/ ComponentCreate(p)
       \/ ComponentGet(p)
       \/ PipelineBuild(p)
       \/ JobSubmit(p)
       \/ JobStart(p)
       \/ JobEnd(p)
       \/ JobStream(p)
       \/ JobGet(p)
       \/ JobsList(p)
       \/ WsModelCreate(p)
       \/ WsModelGet(p)
       \/ ModelShare(p)
       \/ OptJobsList(p)
       \/ OptDownload(p)
       \/ OptModelCreate(p)
       \/ RegistryModelGet(p)
       \/ EndpointCreate(p)
       \/ EndpointCreateWait(p)
       \/ DeploymentCreate(p)
       \/ DeploymentCreateWait(p)
       \/ TrafficUpdate(p)
       \/ TrafficUpdateResult(p)
       \/ Invoke(p)
       \/ EndpointDelete(p)
       \/ EndpointDeleteWait(p)
       \/ OperationEnds(p)

ParallelNext ==
    \/ CredentialCell(ParallelProc)
    \/ WorkspaceCell(ParallelProc)
    \/ LoadComponentCell(ParallelProc)
    \/ DeclareParallelCell(ParallelProc)
    \/ BuildPipelineCell(ParallelProc)
    \/ SubmitCell(ParallelProc)
    \/ StreamCell(ParallelProc)
    \/ \E n \in StepNames : StepStarts(n)
    \/ PartitionEnds
    \/ MiniBatchStarts
    \/ MiniBatchEnds
    \/ ParallelEnds

Next == RegistryNext \/ (notebook = "registry" /\ Tick) \/ ParallelNext

Spec == Init /\ [][Next]_vars

(***************************************************************************)
(* Properties.                                                             *)
(***************************************************************************)
\* The calls of process p that returned.
Returned(p) == {calls[p][i] : i \in 1..Len(calls[p])} \ errors[p]

CredentialCellRan(p) == pc[p] # "credential" \/ status[p] # "running"

\* C1: in both notebooks, when DefaultAzureCredential() or its get_token
\* call raised, the credential cell ends with credential bound to an
\* InteractiveBrowserCredential; when neither raised, credential is the
\* DefaultAzureCredential and no InteractiveBrowserCredential was
\* constructed; either way the cell itself did not fail.
C1_CredentialFallback ==
    \A p \in Procs :
       CredentialCellRan(p) =>
          /\ pc[p] # "credential"
          /\ firstRaised[p] # "none" =>
                credential[p] = "InteractiveBrowserCredential"
          /\ firstRaised[p] = "none" =>
                /\ credential[p] = "DefaultAzureCredential"
                /\ "InteractiveBrowserCredential" \notin constructed[p]

C1_Witness ==
    /\ \E p \in Procs :
          /\ firstRaised[p] = "get_token"
          /\ credential[p] = "InteractiveBrowserCredential"
          /\ status[p] = "running"
          /\ pc[p] = AfterCredential(p)

\* C2: when the cells of the registry notebook run in order, the model the
\* "Get model from registry" cell requests (name "nyc-taxi-model", version
\* = version) is in the registry, created there by an earlier step of the
\* same run.
C2_GetFindsOwnModel ==
    \A p \in Runs :
       At(p, "registry_model_get") =>
          \E a \in registry :
             /\ a.kind = "model"
             /\ a.name = "nyc-taxi-model"
             /\ a.version = version[p]
             /\ a.creator = p

\* C3: the parallel training step consumes the partition step's
\* tabular_output_data output and has not started unless the partition step
\* has completed, and the two steps are submitted as one pipeline job.
C3_PartitionBeforeTraining ==
    /\ Len(submitted) <= 1
    /\ Len(submitted) = 1 =>
          /\ DOMAIN SubmittedJob.jobs = StepNames
          /\ "tabular_output_data" \in SubmittedJob.jobs.partition_job.outputs
          /\ SubmittedJob.jobs.parallel_train.inputs.data_source
                = Bound("partition_job", "tabular_output_data")
    /\ stepStatus["parallel_train"] # "NotStarted" =>
          stepStatus["partition_job"] = "Completed"

C3_Witness ==
    /\ stepStatus["parallel_train"] = "Running"
    /\ stepStatus["partition_job"] = "Completed"

\* C4: the optional "create model from local files" cell fails whenever the
\* earlier steps of the run have created a model in the registry.
C4_OptionalCellFails ==
    \A p \in Runs :
       (\E a \in registry : a.kind = "model" /\ a.creator = p
                             /\ a.via = "ml_client_workspace")
          => "opt_model_create" \notin Returned(p)

\* C5: with version = str(int(time.time())), no two runs of the registry
\* notebook ask for the creation of an asset with the same name and version.
C5_NoVersionConflict ==
    \A r1, r2 \in createRequests :
       r1.run # r2.run =>
          ~(/\ r1.store = r2.store
            /\ r1.kind = r2.kind
            /\ r1.name = r2.name
            /\ r1.version = r2.version)

\* C6: the submitted parallel_train step carries instance_count 3,
\* max_concurrency_per_instance 2 and mini_batch_error_threshold 10, where
\* the declaration says 2, 1 and 5; error_threshold, retry_settings and
\* partition_keys are those of the declaration.
C6_RunLevelOverrides ==
    Len(submitted) >= 1 =>
       /\ ParallelSettings.resources.instance_count = 3
       /\ ParallelSettings.max_concurrency_per_instance = 2
       /\ ParallelSettings.mini_batch_error_threshold = 10
       /\ parallel_run_function.instance_count = 2
       /\ parallel_run_function.max_concurrency_per_instance = 1
       /\ parallel_run_function.mini_batch_error_threshold = 5
       /\ ParallelSettings.error_threshold = -1
       /\ ParallelSettings.error_threshold = parallel_run_function.error_threshold
       /\ ParallelSettings.retry_settings = [max_retries |-> 2, timeout |-> 60]
       /\ ParallelSettings.retry_settings = parallel_run_function.retry_settings
       /\ ParallelSettings.partition_keys = <<"Store", "Brand">>
       /\ ParallelSettings.partition_keys = parallel_run_function.partition_keys

C6_Witness ==
    /\ Len(submitted) = 1
    /\ stepStatus["parallel_train"] = "Running"
    /\ NumRunning = 3 * 2

\* C7: the parallel step is marked failed on account of its mini-batches
\* exactly when the number of failed mini-batches is higher than
\* mini_batch_error_threshold; at or below it, it is not failed for that
\* reason.
C7_MiniBatchErrorThreshold ==
    Len(submitted) >= 1 =>
       /\ failReason = "mini_batch_error_threshold"
             <=> mbFailed > ParallelSettings.mini_batch_error_threshold
       /\ failReason = "mini_batch_error_threshold"
             => stepStatus["parallel_train"] = "Failed"
       /\ stepStatus["parallel_train"] = "Failed" <=> failReason # "none"

C7_Witness ==
    /\ failReason = "mini_batch_error_threshold"
    /\ stepStatus["parallel_train"] = "Failed"
    /\ mbFailed = 11

Copies(phase, attempts, bag) == CopiesIn([phase |-> phase, attempts |-> attempts], bag)

\* C8: an execution that fails is retried while the mini-batch has been
\* executed fewer than 3 times (max_retries = 2) and fails the mini-batch
\* otherwise; no mini-batch is executed more than 3 times, and a mini-batch
\* that succeeded is not executed again.
C8_RetryAtMostTwice ==
    [][stepStatus["parallel_train"] = "Running"
       /\ stepStatus'["parallel_train"] = "Running" =>
          /\ \A s \in BagToSet(mb') : s.attempts <= 3
          /\ mbSucceeded' >= mbSucceeded
          /\ BagCardinality(mb') + mbSucceeded' + mbFailed' = NumMiniBatches
          /\ \A a \in 1..4 :
                Copies("running", a, mb') < Copies("running", a, mb) =>
                   \/ /\ mbSucceeded' = mbSucceeded + 1
                      /\ mbFailed' = mbFailed
                      /\ Copies("pending", a, mb') = Copies("pending", a, mb)
                   \/ /\ a < 3
                      /\ Copies("pending", a, mb') = Copies("pending", a, mb) + 1
                      /\ mbSucceeded' = mbSucceeded
                      /\ mbFailed' = mbFailed
                   \/ /\ a = 3
                      /\ mbFailed' = mbFailed + 1
                      /\ mbSucceeded' = mbSucceeded
                      /\ Copies("pending", a, mb') = Copies("pending", a, mb)]_vars

C8_Witness ==
    /\ stepStatus["parallel_train"] = "Running"
    /\ Copies("running", 3, mb) > 0
    /\ mbSucceeded > 0

\* The call sites of the cells after the stream call.
AfterStream ==
    {"job_get", "jobs_list", "ws_model_create", "ws_model_get", "model_share",
     "opt_jobs_list", "opt_download", "opt_model_create", "registry_model_get"}

\* C9: once jobs.stream has returned the pipeline job is in a terminal
\* state, so every later call (jobs.get, jobs.list, creating the model from
\* the job's output) is issued only after the job has finished.
C9_StreamWaitsForJob ==
    /\ \A p \in Procs :
          (\E site \in {"job_stream", "stream"} : site \in Returned(p))
             => JobState(p) \in Terminal
    /\ \A p \in Runs :
          (\E i \in 1..Len(calls[p]) : calls[p][i] \in AfterStream)
             => job[p].state \in Terminal

C9_Witness ==
    /\ \E p \in Runs :
          /\ pc[p] = "ws_model_get"
          /\ "job_stream" \in Returned(p)
          /\ job[p].state = "Completed"

\* C10: an error returned by an SDK call outside the credential cell is not
\* caught or retried: the run has failed at that call, which is the last
\* call it issued, and it issued it once.
C10_NoLocalFailureHandling ==
    \A p \in Procs :
       errors[p] # {} =>
          /\ status[p] = "failed"
          /\ Cardinality(errors[p]) = 1
          /\ calls[p][Len(calls[p])] \in errors[p]
          /\ \A i, j \in 1..Len(calls[p]) :
                calls[p][i] = calls[p][j] /\ calls[p][i] \in errors[p] => i = j

C10_Witness ==
    /\ \E p \in Runs :
          /\ errors[p] = {"invoke"}
          /\ status[p] = "failed"
          /\ pc[p] = "invoke"

\* The call sites that wait for a long-running operation.
WaitSites ==
    {"endpoint_create_wait", "deployment_create_wait", "traffic_update_result",
     "endpoint_delete_wait"}

\* C11: a run of the registry notebook issues one call at a time: no call
\* of the run returns or raises while an operation the run began is still
\* in flight, and a call that leaves an operation in flight is followed by
\* the .wait() or .result() on it; so a run never has two operations in
\* flight.
C11_OneCallAtATime ==
    [][\A p \in Runs :
          calls'[p] # calls[p] =>
             /\ lro[p].state # "in_flight"
             /\ lro'[p].state = "in_flight" =>
                   /\ pc'[p] \in WaitSites
                   /\ status'[p] = "running"]_vars

C11_Witness ==
    /\ \E p \in Runs :
          /\ pc[p] = "traffic_update_result"
          /\ lro[p].op = "traffic_update"
          /\ lro[p].state = "in_flight"
          /\ "deployment_create_wait" \in Returned(p)

\* C12: a run of the registry notebook that created the online endpoint
\* "endpoint-" + version has deleted it by the time the run has ended: once
\* the run is over, by its last cell or by a cell that raised, the endpoint
\* it created no longer exists.
C12_EndpointDeletedAtEnd ==
    \A p \in Runs :
       status[p] # "running" /\ "endpoint_create_wait" \in Returned(p)
          => ~EndpointExists(EndpointName(version[p]))

\* C13: the assets of the registry (environments, components, models) are
\* created only through ml_client_registry: no asset of the registry was
\* put there by a call made through ml_client_workspace.
C13_RegistryOnlyThroughRegistryClient ==
    \A a \in registry : a.via = "ml_client_registry"

\* Process p issues the call at `site` in this step.
Issues(p, site) == calls'[p] = Append(calls[p], site)

\* The operation the run began last is `op`, and it has completed.
Completed(p, op) == lro[p].op = op /\ lro[p].state = "succeeded"

\* The endpoint named `name` has the deployment "demo".
HasDemo(name) ==
    \E e \in endpoints : e.name = name /\ \E d \in e.deployments : d.name = "demo"

\* C14: in a run of the registry notebook the deployment "demo" is requested
\* only after the endpoint's creation has completed, the traffic update only
\* after the deployment's creation has completed, the invocation only after
\* the traffic update has completed, and the deletion only after the
\* invocation has returned; a completed creation or update has left its
\* effect on the endpoint; and the traffic of an endpoint never names a
\* deployment the endpoint does not have.
C14_EndpointLifecycle ==
    [][/\ \A p \in Runs :
             /\ Issues(p, "deployment_create") => Completed(p, "endpoint_create")
             /\ Issues(p, "traffic_update") => Completed(p, "deployment_create")
             /\ Issues(p, "invoke") => Completed(p, "traffic_update")
             /\ Issues(p, "endpoint_delete") =>
                   /\ Len(calls[p]) > 0
                   /\ calls[p][Len(calls[p])] = "invoke"
                   /\ "invoke" \notin errors[p]
             /\ lro[p].state = "in_flight" /\ lro'[p].state = "succeeded" =>
                   /\ lro[p].op = "endpoint_create" => EndpointExists(lro[p].name)'
                   /\ lro[p].op = "deployment_create" =>
                         EndpointExists(lro[p].name) /\ HasDemo(lro[p].name)'
                   /\ lro[p].op = "traffic_update" =>
                         /\ HasDemo(lro[p].name)
                         /\ \E e \in endpoints' :
                               e.name = lro[p].name /\ e.traffic = DemoTraffic
       /\ \A e \in endpoints' :
             \A t \in e.traffic : \E d \in e.deployments : d.name = t[1]]_vars

C14_Witness ==
    /\ \E p \in Runs :
          /\ pc[p] = "endpoint_delete_wait"
          /\ "invoke" \in Returned(p)
          /\ lro[p].op = "endpoint_delete"
          /\ lro[p].state = "in_flight"
          /\ \E e \in endpoints :
                /\ e.name = EndpointName(version[p])
                /\ e.traffic = DemoTraffic
                /\ HasDemo(e.name)

\* Run p issued the call at site s1 before the call at site s2.
Before(p, s1, s2) ==
    \E i, j \in 1..Len(calls[p]) :
       i < j /\ calls[p][i] = s1 /\ calls[p][j] = s2

\* C15: a training component in the registry references the environment
\* "SKLearnEnv" at the version of the run that created the component, which
\* that run created in the registry and fetched from it; the run created
\* the environment before the component, and the component before it
\* submitted the pipeline job, whose train_job uses that component.
C15_ComponentUsesRegistryEnvironment ==
    /\ \A c \in registry :
          c.kind = "component" =>
             /\ c.version = version[c.creator]
             /\ c.ref = <<"SKLearnEnv", version[c.creator]>>
             /\ \E e \in registry :
                   /\ e.kind = "environment"
                   /\ e.name = "SKLearnEnv"
                   /\ e.version = c.version
                   /\ e.creator = c.creator
             /\ {"env_create", "env_get"} \subseteq Returned(c.creator)
             /\ Before(c.creator, "env_create", "component_create")
             /\ Before(c.creator, "env_get", "component_create")
    /\ \A p \in Runs :
          job[p].state # "none" =>
             /\ job[p].component = <<"train_linear_regression_model", version[p]>>
             /\ \E c \in registry :
                   /\ c.kind = "component"
                   /\ c.name = "train_linear_regression_model"
                   /\ c.version = version[p]
                   /\ c.creator = p
             /\ Before(p, "component_create", "job_submit")

C15_Witness ==
    /\ \E p \in Runs :
          /\ job[p].state = "Running"
          /\ \E c \in registry :
                /\ c.kind = "component"
                /\ c.creator = p
                /\ c.ref = <<"SKLearnEnv", version[p]>>
                /\ job[p].component = <<c.name, c.version>>

\* C16: with error_threshold = -1 the parallel step is never marked failed
\* on account of failed items, whatever the number of items missing from
\* the returns of its mini-batches.
C16_ItemFailuresIgnored ==
    /\ Len(submitted) >= 1 => ParallelSettings.error_threshold = -1
    /\ failReason # "error_threshold"
    /\ itemFailures > 0 /\ mbFailed = 0 /\ failReason = "none"
          => stepStatus["parallel_train"] # "Failed"

C16_Witness ==
    /\ stepStatus["parallel_train"] = "Completed"
    /\ itemFailures = NumMiniBatches * ItemsPerMiniBatch
    /\ mbSucceeded = NumMiniBatches

\* The cell that declares the parallel job has been executed.
DeclarationRan ==
    pc[ParallelProc] \notin {"credential", "workspace", "load_component",
                             "declare_parallel"}

\* C17: the parallel job as declared uses 2 nodes and 2 worker processes on
\* each node, so that as declared at most 4 mini-batches are executed at the
\* same time.
C17_DeclaredConcurrency ==
    DeclarationRan =>
       /\ parallel_run_function.instance_count = 2
       /\ parallel_run_function.max_concurrency_per_instance = 2
       /\ Workers(ParallelNode(parallel_run_function, <<>>)) = 4

=============================================================================
